---- MODULE Spec2Model ----
(***************************************************************************)
(* Model of the JetBrains search provider service (src/main.rs):          *)
(* start_dbus_service, the per-application mailboxes, actors and worker    *)
(* pools it wires up, the settings "changed" listener and the enable       *)
(* gates.                                                                  *)
(*                                                                         *)
(* The modules `searchprovider` and `providers` (serve_search_provider,   *)
(* AppItemSearchProvider, SearchProviderExtensions, PROVIDERS) are         *)
(* modelled from the specification of the service: the actor reads the     *)
(* gate, answers queries from its index and awaits the pool in a Refresh.  *)
(* So is a launch by the AppLaunchService that main starts.                *)
(* futures_channel::mpsc, std::sync::Mutex, glib::ThreadPool,              *)
(* glib::MainContext and gio::Settings are modelled by their documented    *)
(* behaviour.                                                              *)
(***************************************************************************)
EXTENDS Integers, Sequences, FiniteSets, TLC

\* ------------------------------------------------------------------------
\* Bounds and program constants
\* ------------------------------------------------------------------------

\* The static provider catalog, in iteration order (for provider in PROVIDERS).
PROVIDERS == <<"clion", "idea", "pycharm">>

Apps == {PROVIDERS[k] : k \in 1..Len(PROVIDERS)}

\* mpsc::channel(8): the buffer of every mailbox.
ChannelBuffer == 8

\* glib::ThreadPool::shared(Some(2)): max_threads of a pool.
PoolMaxThreads == 2

\* How many requests the clients issue in a behaviour of Spec.
MaxSends == 2

\* How many requests the clients issue in a behaviour of SpecMailbox.
MaxMailboxSends == 12

\* How many Refresh requests the clients issue in a behaviour of SpecPool.
MaxPoolSends == 3

\* The sender handles of one mailbox: tx.clone() for the service interface,
\* tx.clone() for the settings extension, tx for the search provider.
Handles == {"service", "extensions", "provider"}

\* ------------------------------------------------------------------------
\* Project records, the index and the matching rule
\* ------------------------------------------------------------------------

\* Two project records as the Project Index Reader yields them; a name and a
\* path are sequences of characters.
Alpha == [id |-> "p1", name |-> <<"A", "l", "p", "h", "a">>,
          path |-> <<"/", "w", "/", "o", "n", "e">>, last_used |-> 100]

Beta == [id |-> "p2", name |-> <<"B", "e", "t", "a">>,
         path |-> <<"/", "w", "/", "t", "w", "o">>, last_used |-> 200]

\* A third record, used as recently as Beta.
Gamma == [id |-> "p3", name |-> <<"G", "a", "m", "m", "a">>,
          path |-> <<"/", "w", "/", "t", "r", "i">>, last_used |-> 200]

\* The order of project ids ("id ascending").
IdRank(id) == CASE id = "p1" -> 1 [] id = "p2" -> 2 [] OTHER -> 3

\* What one run of the Project Index Reader can return: an error, or the
\* records in the order of the file.
ReadResults == {<<Alpha, Beta>>, <<Beta>>}

ReadOutcomes == {[ok |-> FALSE, records |-> <<>>]}
                  \cup {[ok |-> TRUE, records |-> r] : r \in ReadResults}

\* last_used descending, ties by id ascending.
Before(p, q) ==
    \/ p.last_used > q.last_used
    \/ p.last_used = q.last_used /\ IdRank(p.id) < IdRank(q.id)

RECURSIVE InsertSorted(_, _)
InsertSorted(p, list) ==
    IF list = <<>> THEN <<p>>
    ELSE IF Before(p, Head(list)) THEN <<p>> \o list
    ELSE <<Head(list)>> \o InsertSorted(p, Tail(list))

RECURSIVE SortIndex(_)
SortIndex(list) ==
    IF list = <<>> THEN <<>>
    ELSE InsertSorted(Head(list), SortIndex(Tail(list)))

ToLower(c) ==
    CASE c = "A" -> "a" [] c = "B" -> "b" [] c = "G" -> "g" [] c = "L" -> "l"
      [] c = "T" -> "t" [] c = "W" -> "w" [] c = "Z" -> "z" [] OTHER -> c

Lowercase(s) == [k \in 1..Len(s) |-> ToLower(s[k])]

\* needle occurs in hay as a contiguous run.
Contains(hay, needle) ==
    \E k \in 0..(Len(hay) - Len(needle)) :
        SubSeq(hay, k + 1, k + Len(needle)) = needle

\* Case-insensitive substring match of one term against name or path.
TermMatches(project, term) ==
    \/ Contains(Lowercase(project.name), Lowercase(term))
    \/ Contains(Lowercase(project.path), Lowercase(term))

\* All terms must match; no term matches everything.
Matches(project, terms) ==
    \A k \in 1..Len(terms) : TermMatches(project, terms[k])

Ids(list) == [k \in 1..Len(list) |-> list[k].id]

\* The configured maximum of an InitialSearch result.
MaxResults == 2

\* Mutant: the result set is not bounded.
Truncate_Unbounded(list) == list

\* The bounded result set: the leading MaxResults entries.
Truncate(list) ==
    IF Len(list) > MaxResults THEN SubSeq(list, 1, MaxResults) ELSE list

\* InitialSearch: the ids of the matching projects, in index order, at most
\* the configured maximum.
FindMatching(idx, terms) ==
    LET ok(p) == Matches(p, terms) IN Truncate(Ids(SelectSeq(idx, ok)))

\* Mutant: the subsearch filters the whole index, as InitialSearch does.
FindWithin_WholeIndex(idx, previous, terms) == FindMatching(idx, terms)

\* SubsearchResult: the ids of `previous` whose project is in the index and
\* matches.
FindWithin(idx, previous, terms) ==
    LET ok(id) == \E k \in 1..Len(idx) :
                      idx[k].id = id /\ Matches(idx[k], terms)
    IN SelectSeq(previous, ok)

\* The term sequences and previous-result sequences the clients send.
TermInputs == {<<>>, << <<"L">> >>}

PreviousInputs == {<<"p1">>}

\* The inputs of the search specification: what a read returns (the records
\* in any order of the file), the terms and the previous results.
Permutations3(x, y, z) ==
    {<<x, y, z>>, <<x, z, y>>, <<y, x, z>>, <<y, z, x>>, <<z, x, y>>,
     <<z, y, x>>}

SearchReadResults ==
    {<<>>, <<Alpha>>, <<Gamma>>, <<Alpha, Beta>>, <<Gamma, Beta>>,
     <<Beta, Gamma>>, <<Gamma, Alpha>>}
        \cup Permutations3(Alpha, Beta, Gamma)

SearchReadOutcomes ==
    {[ok |-> FALSE, records |-> <<>>]}
        \cup {[ok |-> TRUE, records |-> r] : r \in SearchReadResults}

SearchTermInputs ==
    {<<>>, << <<"A">> >>, << <<"L">> >>, << <<"z", "z">> >>,
     << <<"w">>, <<"T">> >>}

SearchPreviousInputs == {<<>>, <<"p1">>, <<"p3", "p1">>, <<"p2", "p2">>}

\* ------------------------------------------------------------------------
\* State
\* ------------------------------------------------------------------------

VARIABLES
    pc,                 \* where start_dbus_service / main stands
    next_provider,      \* position of `for provider in PROVIDERS`
    installed,          \* the applications gio::DesktopAppInfo::new finds
    settings,           \* the persisted "disabled" key (a set of app ids)
    disabled_apps,      \* the snapshot of the key read at startup
    pending_changed,    \* a "changed" signal is waiting for its handler
    search_services,    \* Vec of (app id, sender) for the service interface
    app_disabled_state, \* Vec of (app id, gate) the listener iterates
    providers,          \* Vec of (path, provider, extensions) to publish
    disabled,           \* app.disabled: the value in each gate's mutex
    poisoned,           \* whether lock() on the gate's mutex returns Err
    mailbox,            \* the messages pending in each mpsc channel
    parked_queue,       \* the parked senders of each channel, oldest first
    actor,              \* "none", "idle" or "refreshing" per application
    current,            \* the Refresh message an actor is processing
    job,                \* the actor's read job: "none", "queued", "running"
    io_pool,            \* the thread pool each actor pushes its reads to
    index,              \* the ProjectIndex each actor owns
    processed,          \* how many messages each actor has replied to
    last_reply,         \* the reply each actor sent last
    refreshed,          \* seq and resulting index of the last Refresh done
    sent,               \* how many requests the clients have issued
    exit_cause,         \* why start_dbus_service returned Err ("none": not)
    launch_service,     \* the AppLaunchService: "created" or "started"
    last_launch         \* what the last launch of each application did

vars == <<pc, next_provider, installed, settings, disabled_apps,
          pending_changed, search_services, app_disabled_state, providers,
          disabled, poisoned, mailbox, parked_queue, actor, current, job,
          io_pool, index, processed, last_reply, refreshed, sent,
          exit_cause, launch_service, last_launch>>

startup_vars == <<pc, next_provider, disabled_apps, search_services,
                  app_disabled_state, providers, exit_cause, launch_service>>

env_vars == <<installed, settings, pending_changed>>

gate_vars == <<disabled, poisoned>>

channel_vars == <<mailbox, parked_queue>>

actor_vars == <<actor, current, job, io_pool, index, processed, last_reply,
                refreshed, last_launch>>

NoMessage == [kind |-> "none", seq |-> 0, after |-> 0, terms |-> <<>>,
              previous |-> <<>>]

\* No reply yet.  `idx` is the index the reply was given from (for a Refresh,
\* the index it left); `prior` keeps that much of the reply before this one.
NoPrior == [kind |-> "none", result |-> <<>>, ok |-> TRUE, idx |-> <<>>]

NoReply == [seq |-> 0, kind |-> "none", after |-> 0, terms |-> <<>>,
            previous |-> <<>>, gate |-> "none", result |-> <<>>, ok |-> TRUE,
            idx |-> <<>>, prior |-> NoPrior]

\* No launch yet.  `reported` is what the caller of the launch is told.
NoLaunch == [seq |-> 0, resolved |-> FALSE, spawned |-> FALSE,
             registered |-> FALSE, reported |-> "none", warned |-> FALSE]

\* The values of the persisted disabled list the environment writes.
DisabledLists == {{}, {"clion"}, {"clion", "idea"}}

\* The sets of installed applications a host of Spec can have.
InstalledSets == {{}, {"idea"}}

\* How many gate mutexes get poisoned in a behaviour.
MaxPoisoned == 1

Range(seq) == {seq[k] : k \in 1..Len(seq)}

\* The state when start_dbus_service is entered, on a host whose installed
\* applications are one of `hosts` and whose disabled list is one of `lists`.
InitOn(hosts, lists) ==
    /\ pc = "start"
    /\ next_provider = 1
    /\ installed \in hosts
    /\ settings \in lists
    /\ disabled_apps = {}
    /\ pending_changed = FALSE
    /\ search_services = <<>>
    /\ app_disabled_state = <<>>
    /\ providers = <<>>
    /\ disabled = [a \in Apps |-> FALSE]
    /\ poisoned = [a \in Apps |-> FALSE]
    /\ mailbox = [a \in Apps |-> <<>>]
    /\ parked_queue = [a \in Apps |-> <<>>]
    /\ actor = [a \in Apps |-> "none"]
    /\ current = [a \in Apps |-> NoMessage]
    /\ job = [a \in Apps |-> "none"]
    /\ io_pool = [a \in Apps |-> 0]
    /\ index = [a \in Apps |-> <<>>]
    /\ processed = [a \in Apps |-> 0]
    /\ last_reply = [a \in Apps |-> NoReply]
    /\ refreshed = [a \in Apps |-> [seq |-> 0, idx |-> <<>>]]
    /\ sent = 0
    /\ exit_cause = "none"
    /\ launch_service = "created"
    /\ last_launch = [a \in Apps |-> NoLaunch]

Init == InitOn(InstalledSets, DisabledLists)

\* ------------------------------------------------------------------------
\* The mailbox: futures_channel::mpsc::channel(ChannelBuffer)
\* ------------------------------------------------------------------------

\* The sequence number the next message enqueued for `a` gets: one more than
\* the messages replied to, in processing and pending.
NextSeq(a) ==
    processed[a] + (IF current[a].kind = "none" THEN 0 ELSE 1)
        + Len(mailbox[a]) + 1

\* The sequence number of the last Refresh enqueued for `a` so far (0: none).
LastRefresh(a) ==
    LET cur == IF current[a].kind = "Refresh" THEN {current[a].seq} ELSE {}
        pend == {mailbox[a][k].seq : k \in {j \in 1..Len(mailbox[a]) :
                                            mailbox[a][j].kind = "Refresh"}}
        all == {refreshed[a].seq} \cup cur \cup pend
    IN CHOOSE s \in all : \A t \in all : t <= s

NewMessage(a, kind, terms, previous) ==
    [kind |-> kind, seq |-> NextSeq(a), after |-> LastRefresh(a),
     terms |-> terms, previous |-> previous]

\* Mutant: one task sends for all applications, a handle suspended on one
\* mailbox holds up the calls to every other.
SenderReady_OneTask(a, h) ==
    \A b \in Apps : h \notin Range(parked_queue[b])

\* Sender::poll_ready: a parked sender is not ready, its send is suspended.
SenderReady(a, h) == h \notin Range(parked_queue[a])

\* Mutant: an unbounded channel, no sender ever parks.
ParkSelf_Never(num_messages) == FALSE

\* Sender::do_send_b: the sender parks itself when the number of pending
\* messages, its own included, exceeds the buffer.
ParkSelf(num_messages) == num_messages > ChannelBuffer

\* Sender::do_send_b: the message is pushed in any case.
MailboxAfterSend(a, m) == Append(mailbox[a], m)

ParkedAfterSend(a, h) ==
    IF ParkSelf(Len(mailbox[a]) + 1) THEN Append(parked_queue[a], h)
    ELSE parked_queue[a]

\* sender.send(m).await up to the point where the message is in the channel;
\* the send future of a parked sender completes when the sender is unparked.
Send(a, h, m) ==
    /\ SenderReady(a, h)
    /\ mailbox' = [mailbox EXCEPT ![a] = MailboxAfterSend(a, m)]
    /\ parked_queue' = [parked_queue EXCEPT ![a] = ParkedAfterSend(a, h)]

\* Mutant: the receiver takes the newest message.
NextMessage_Newest(a) == mailbox[a][Len(mailbox[a])]

\* Receiver::next_message: the message the actor takes.
NextMessage(a) == Head(mailbox[a])

MailboxAfterReceive(a) == Tail(mailbox[a])

\* Mutant: a lost wakeup, the receiver never unparks a sender.
ParkedAfterReceive_NoUnpark(a) == parked_queue[a]

\* Receiver::unpark_one: the oldest parked sender is woken.
ParkedAfterReceive(a) ==
    IF parked_queue[a] = <<>> THEN <<>> ELSE Tail(parked_queue[a])

Receive(a) ==
    /\ mailbox[a] # <<>>
    /\ mailbox' = [mailbox EXCEPT ![a] = MailboxAfterReceive(a)]
    /\ parked_queue' = [parked_queue EXCEPT ![a] = ParkedAfterReceive(a)]

\* ------------------------------------------------------------------------
\* start_dbus_service
\* ------------------------------------------------------------------------

Provider == PROVIDERS[next_provider]

\* let disabled_apps = SettingsExtManual::get(&settings, "disabled")
ReadSettings ==
    /\ pc = "start"
    /\ disabled_apps' = settings
    /\ pc' = "loop"
    /\ UNCHANGED <<next_provider, search_services, app_disabled_state,
                   providers, exit_cause, launch_service, env_vars, gate_vars,
                   channel_vars, actor_vars, sent>>

\* Mutant: the sender is pushed for the service interface before the probe.
SkipProvider_ListsProvider ==
    /\ pc = "loop"
    /\ next_provider <= Len(PROVIDERS)
    /\ Provider \notin installed
    /\ next_provider' = next_provider + 1
    /\ search_services' = Append(search_services, Provider)
    /\ UNCHANGED <<pc, disabled_apps, app_disabled_state, providers,
                   exit_cause, launch_service, env_vars, gate_vars,
                   channel_vars, actor_vars, sent>>

\* gio::DesktopAppInfo::new(provider.desktop_id) is None.
SkipProvider ==
    /\ pc = "loop"
    /\ next_provider <= Len(PROVIDERS)
    /\ Provider \notin installed
    /\ next_provider' = next_provider + 1
    /\ UNCHANGED <<pc, disabled_apps, search_services, app_disabled_state,
                   providers, exit_cause, launch_service, env_vars, gate_vars,
                   channel_vars, actor_vars, sent>>

\* glib::ThreadPool::shared(Some(2)) inside the loop body: every call makes a
\* pool of its own, named here by the position of the provider.
NewPool == next_provider

\* disabled_apps.contains(&app_id.to_string())
StartupDisabled(a) == a \in disabled_apps

\* Mutant: a lock that cannot be acquired leaves the application disabled.
StartupGate_FailClosed(a, lock_ok) ==
    IF lock_ok THEN StartupDisabled(a) ELSE TRUE

\* match lock { Ok(guard) => **guard = disabled, Err(_) => warn }
StartupGate(a, lock_ok) ==
    IF lock_ok THEN StartupDisabled(a) ELSE disabled[a]

\* How many gate mutexes are poisoned.
NumPoisoned == Cardinality({b \in Apps : poisoned[b]})

\* The loop body for an installed application up to the await: the channel
\* and the pool are created, the actor is spawned with the receiver and the
\* pool, the gate is set under its lock (lock_ok: whether lock() returned
\* Ok), the gate is pushed for the listener, and the extension's refresh()
\* sends the startup Refresh.
StartSearchService(lock_ok) ==
    /\ pc = "loop"
    /\ next_provider <= Len(PROVIDERS)
    /\ Provider \in installed
    /\ lock_ok \/ NumPoisoned < MaxPoisoned
    /\ search_services' = Append(search_services, Provider)
    /\ io_pool' = [io_pool EXCEPT ![Provider] = NewPool]
    /\ actor' = [actor EXCEPT ![Provider] = "idle"]
    /\ poisoned' = [poisoned EXCEPT ![Provider] = ~lock_ok]
    /\ disabled' = [disabled EXCEPT
                      ![Provider] = StartupGate(Provider, lock_ok)]
    /\ app_disabled_state' = Append(app_disabled_state, Provider)
    /\ Send(Provider, "extensions",
            NewMessage(Provider, "Refresh", <<>>, <<>>))
    /\ pc' = "await"
    /\ UNCHANGED <<next_provider, disabled_apps, providers, exit_cause,
                   launch_service, env_vars, current, job, index, processed,
                   last_reply, refreshed, last_launch, sent>>

\* Mutant: the startup refresh is sent but not awaited.
StartupRefreshDone_NotAwaited ==
    /\ pc = "await"
    /\ providers' = Append(providers, Provider)
    /\ next_provider' = next_provider + 1
    /\ pc' = "loop"
    /\ UNCHANGED <<disabled_apps, search_services, app_disabled_state,
                   exit_cause, launch_service, env_vars, gate_vars,
                   channel_vars, actor_vars, sent>>

\* Mutant: the provider is pushed only when the startup refresh succeeded.
StartupRefreshDone_OnlyIfOk ==
    /\ pc = "await"
    /\ processed[Provider] >= 1
    /\ providers' = IF last_reply[Provider].ok
                    THEN Append(providers, Provider) ELSE providers
    /\ next_provider' = next_provider + 1
    /\ pc' = "loop"
    /\ UNCHANGED <<disabled_apps, search_services, app_disabled_state,
                   exit_cause, launch_service, env_vars, gate_vars,
                   channel_vars, actor_vars, sent>>

\* refresh().await returns once the actor has replied; the result is ignored
\* (let _ =) and the provider is pushed.
StartupRefreshDone ==
    /\ pc = "await"
    /\ processed[Provider] >= 1
    /\ providers' = Append(providers, Provider)
    /\ next_provider' = next_provider + 1
    /\ pc' = "loop"
    /\ UNCHANGED <<disabled_apps, search_services, app_disabled_state,
                   exit_cause, launch_service, env_vars, gate_vars,
                   channel_vars, actor_vars, sent>>

\* Mutant: the Err arm logs the error and goes on as the Ok arm does.
Abort_NoExit(cause) ==
    /\ pc' = "serving"
    /\ exit_cause' = cause
    /\ launch_service' = "started"
    /\ UNCHANGED <<next_provider, disabled_apps, app_disabled_state,
                   providers, env_vars, gate_vars, channel_vars, actor_vars,
                   sent>>

\* start_dbus_service returns Err(cause) through a `?`: main logs the error
\* and calls std::process::exit(1).  Nothing of the Ok arm runs.
Abort(cause) ==
    /\ pc' = "failed"
    /\ exit_cause' = cause
    /\ UNCHANGED <<next_provider, disabled_apps, app_disabled_state,
                   providers, launch_service, env_vars, gate_vars,
                   channel_vars, actor_vars, sent>>

\* ConnectionBuilder::session()? or build().await fails: no session bus.
ConnectFails ==
    /\ pc = "loop"
    /\ next_provider > Len(PROVIDERS)
    /\ Abort("bus")
    /\ UNCHANGED search_services

\* glib::ThreadPool::shared(Some(2)) returns Err for an installed
\* application: `?` leaves start_dbus_service after the sender was pushed.
ThreadPoolFails ==
    /\ pc = "loop"
    /\ next_provider <= Len(PROVIDERS)
    /\ Provider \in installed
    /\ Abort("pool")
    /\ search_services' = Append(search_services, Provider)

\* A serve_at(..)? fails: an object path cannot be published.
PublishFails ==
    /\ pc = "loop"
    /\ next_provider > Len(PROVIDERS)
    /\ Abort("publish")
    /\ UNCHANGED search_services

\* name(BUSNAME)? or the name request of build().await fails.
NameFails ==
    /\ pc = "loop"
    /\ next_provider > Len(PROVIDERS)
    /\ Abort("name")
    /\ UNCHANGED search_services

\* The connection is built with every object published and the name
\* acquired, settings.connect_changed registers the listener, the tick task
\* is spawned, and main starts the launch service and runs the main loop.
Serve ==
    /\ pc = "loop"
    /\ next_provider > Len(PROVIDERS)
    /\ pc' = "serving"
    /\ launch_service' = "started"
    /\ UNCHANGED <<next_provider, disabled_apps, search_services,
                   app_disabled_state, providers, exit_cause, env_vars,
                   gate_vars, channel_vars, actor_vars, sent>>

\* The changed handler is connected.
ListenerConnected == pc = "serving"

\* ------------------------------------------------------------------------
\* The environment: the settings storage and the gate's mutex
\* ------------------------------------------------------------------------

\* Some process writes the persisted disabled list; the signal reaches only
\* a handler that is connected.
ChangeSettings(list) ==
    /\ pc # "failed"
    /\ list # settings
    /\ settings' = list
    /\ pending_changed' = (pending_changed \/ ListenerConnected)
    /\ UNCHANGED <<installed, startup_vars, gate_vars, channel_vars,
                   actor_vars, sent>>

\* app.disabled.lock() is Ok unless the mutex is poisoned.
LockOk(a) == ~poisoned[a]

\* A holder of the guard panicked: lock() returns Err from now on.
PoisonLock(a) ==
    /\ pc = "serving"
    /\ actor[a] # "none"
    /\ ~poisoned[a]
    /\ NumPoisoned < MaxPoisoned
    /\ poisoned' = [poisoned EXCEPT ![a] = TRUE]
    /\ UNCHANGED <<disabled, startup_vars, env_vars, channel_vars,
                   actor_vars, sent>>

\* Mutant: the membership test of the handler is inverted.
ListenerDisabled_Inverted(list, a) == a \notin list

\* disabled_apps.contains(app_id) in the changed handler.
ListenerDisabled(list, a) == a \in list

\* Mutant: the handler writes through a lock it could not acquire
\* (unwrap_or_else(PoisonError::into_inner)).
ListenerUpdate_IntoInner(gates, list, a) == ListenerDisabled(list, a)

\* The gate value the handler leaves for one (app_id, disabled) entry:
\* match lock { Ok(guard) => **guard = contains, Err(_) => warn }.
ListenerUpdate(gates, list, a) ==
    IF LockOk(a) THEN ListenerDisabled(list, a) ELSE gates[a]

\* Mutant: the entry holds a copy of the flag (Arc::new(Mutex::new(..)))
\* that no search provider reads.
GateCell_Copied(entry) == "copied"

\* app_disabled_state.push((app_id.to_string(), app.disabled.clone())): the
\* Arc of an entry points to the cell of the App that is moved into the
\* application's search provider; cells are named by their application.
GateCell(entry) == entry

\* app_disabled_state.iter().for_each(...): the gates after the handler ran
\* on the gates `gates` with the disabled list `list`.
GatesAfterChanged(gates, list) ==
    [a \in Apps |-> IF \E entry \in Range(app_disabled_state) :
                           GateCell(entry) = a
                    THEN ListenerUpdate(gates, list, a) ELSE gates[a]]

\* The closure given to connect_changed, on s.get(k), the list as it is now.
HandleChanged ==
    /\ pending_changed
    /\ pending_changed' = FALSE
    /\ disabled' = GatesAfterChanged(disabled, settings)
    /\ UNCHANGED <<installed, settings, startup_vars, poisoned, channel_vars,
                   actor_vars, sent>>

\* ------------------------------------------------------------------------
\* The search provider actor (serve_search_provider) and its worker pool
\* ------------------------------------------------------------------------

\* Mutant: the actor never looks at the gate.
GateReadsDisabled_Ignored(a) == FALSE

\* The gate as the actor reads it: a lock that cannot be acquired reads as
\* enabled (fail-open).
GateReadsDisabled(a) == IF LockOk(a) THEN disabled[a] ELSE FALSE

\* The result of a query against the index.
QueryResult(a, m) ==
    IF m.kind = "InitialSearch" THEN FindMatching(index[a], m.terms)
    ELSE FindWithin(index[a], m.previous, m.terms)

Reply(a, m, gate, result, ok, idx) ==
    [seq |-> m.seq, kind |-> m.kind, after |-> m.after, terms |-> m.terms,
     previous |-> m.previous, gate |-> gate, result |-> result, ok |-> ok,
     idx |-> idx,
     prior |-> [kind |-> last_reply[a].kind, result |-> last_reply[a].result,
                ok |-> last_reply[a].ok, idx |-> last_reply[a].idx]]

\* The reply to InitialSearch or SubsearchResult.
Answer(a, m) ==
    IF GateReadsDisabled(a)
    THEN Reply(a, m, "disabled", <<>>, TRUE, index[a])
    ELSE Reply(a, m, IF LockOk(a) THEN "enabled" ELSE "failopen",
               QueryResult(a, m), TRUE, index[a])

\* Mutant: the actor takes messages while its Refresh waits for the pool.
ActorReady_WhileRefreshing(a) == actor[a] \in {"idle", "refreshing"}

\* The actor may take its next message: it is idle.
ActorReady(a) == actor[a] = "idle"

\* The idle actor takes a query from its mailbox and replies.
ActorAnswer(a) ==
    /\ ActorReady(a)
    /\ mailbox[a] # <<>>
    /\ NextMessage(a).kind \in {"InitialSearch", "SubsearchResult"}
    /\ Receive(a)
    /\ last_reply' = [last_reply EXCEPT ![a] = Answer(a, NextMessage(a))]
    /\ processed' = [processed EXCEPT ![a] = @ + 1]
    /\ UNCHANGED <<startup_vars, env_vars, gate_vars, actor, current, job,
                   io_pool, index, refreshed, last_launch, sent>>

\* The idle actor takes a Refresh and pushes the read to its pool.
ActorRefresh(a) ==
    /\ ActorReady(a)
    /\ mailbox[a] # <<>>
    /\ NextMessage(a).kind = "Refresh"
    /\ Receive(a)
    /\ current' = [current EXCEPT ![a] = NextMessage(a)]
    /\ actor' = [actor EXCEPT ![a] = "refreshing"]
    /\ job' = [job EXCEPT ![a] = "queued"]
    /\ UNCHANGED <<startup_vars, env_vars, gate_vars, io_pool, index,
                   processed, last_reply, refreshed, last_launch, sent>>

\* The reads a pool is running.
PoolRunning(pool) ==
    Cardinality({b \in Apps : io_pool[b] = pool /\ job[b] = "running"})

\* ResultMetadata: the ids of `ids` that the index holds, in the order asked
\* (each stands for its metadata record); absent ids are left out.
MetadataOf(idx, ids) ==
    LET known(id) == \E k \in 1..Len(idx) : idx[k].id = id
    IN SelectSeq(ids, known)

\* The idle actor takes a ResultMetadata and replies from its index.
ActorMetadata(a) ==
    /\ ActorReady(a)
    /\ mailbox[a] # <<>>
    /\ NextMessage(a).kind = "ResultMetadata"
    /\ Receive(a)
    /\ last_reply' = [last_reply EXCEPT
                        ![a] = Reply(a, NextMessage(a), "none",
                                     MetadataOf(index[a],
                                                NextMessage(a).previous),
                                     TRUE, index[a])]
    /\ processed' = [processed EXCEPT ![a] = @ + 1]
    /\ UNCHANGED <<startup_vars, env_vars, gate_vars, actor, current, job,
                   io_pool, index, refreshed, last_launch, sent>>

\* Mutant: a launch counts as failed when its scope was not registered.
LaunchReported_NeedsScope(spawned, registered) ==
    IF spawned /\ registered THEN "ok" ELSE "failed"

\* What the launch service reports: the outcome of the spawn step.
LaunchReported(spawned, registered) == IF spawned THEN "ok" ELSE "failed"

\* One launch by the Application Launch Service: the executable is resolved
\* or not, the process is spawned or not, and the spawned process is
\* registered under a supervision scope or, with a warning, left running
\* without one.
Launch(m, resolvable, spawn_ok, scope_ok) ==
    LET spawned == resolvable /\ spawn_ok
        registered == spawned /\ scope_ok
    IN [seq |-> m.seq, resolved |-> resolvable, spawned |-> spawned,
        registered |-> registered,
        reported |-> LaunchReported(spawned, registered),
        warned |-> spawned /\ ~registered]

\* The idle actor takes an Activate and forwards it to the launch service;
\* its own state is left alone.
ActorActivate(a, resolvable, spawn_ok, scope_ok) ==
    /\ ActorReady(a)
    /\ launch_service = "started"
    /\ mailbox[a] # <<>>
    /\ NextMessage(a).kind = "Activate"
    /\ Receive(a)
    /\ last_launch' = [last_launch EXCEPT
                         ![a] = Launch(NextMessage(a), resolvable, spawn_ok,
                                       scope_ok)]
    /\ last_reply' = [last_reply EXCEPT
                        ![a] = Reply(a, NextMessage(a), "none", <<>>,
                                     resolvable /\ spawn_ok, index[a])]
    /\ processed' = [processed EXCEPT ![a] = @ + 1]
    /\ UNCHANGED <<startup_vars, env_vars, gate_vars, actor, current, job,
                   io_pool, index, refreshed, sent>>

\* Mutant: the reads are given to the main context's own thread, which is
\* busy in block_on: no read ever starts.
PoolHasThread_MainThread(a) == FALSE

\* A thread of the job's pool is free (max_threads of that pool).
PoolHasThread(a) == PoolRunning(io_pool[a]) < PoolMaxThreads

\* The pool starts the queued read on one of its threads.
PoolRun(a) ==
    /\ job[a] = "queued"
    /\ PoolHasThread(a)
    /\ job' = [job EXCEPT ![a] = "running"]
    /\ UNCHANGED <<startup_vars, env_vars, gate_vars, channel_vars, actor,
                   current, io_pool, index, processed, last_reply, refreshed,
                   last_launch, sent>>

\* The index after a read: replaced wholesale, or kept when the read failed.
IndexAfterRead(a, outcome) ==
    IF outcome.ok THEN SortIndex(outcome.records) ELSE index[a]

\* The read ends, the actor replaces the index (or keeps it), replies to the
\* Refresh and is idle again.
RefreshDone(a, outcome) ==
    /\ job[a] = "running"
    /\ index' = [index EXCEPT ![a] = IndexAfterRead(a, outcome)]
    /\ last_reply' = [last_reply EXCEPT
                        ![a] = Reply(a, current[a], "none", <<>>, outcome.ok,
                                     IndexAfterRead(a, outcome))]
    /\ refreshed' = [refreshed EXCEPT
                       ![a] = [seq |-> current[a].seq,
                               idx |-> IndexAfterRead(a, outcome)]]
    /\ processed' = [processed EXCEPT ![a] = @ + 1]
    /\ actor' = [actor EXCEPT ![a] = "idle"]
    /\ current' = [current EXCEPT ![a] = NoMessage]
    /\ job' = [job EXCEPT ![a] = "none"]
    /\ UNCHANGED <<startup_vars, env_vars, gate_vars, channel_vars, io_pool,
                   last_launch, sent>>

\* ------------------------------------------------------------------------
\* The clients: calls on the published objects
\* ------------------------------------------------------------------------

\* The objects of `a` are on the bus and the connection is ticked.
Published(a) == pc = "serving" /\ a \in Range(providers)

\* What each sender handle sends.
Requests(h) ==
    IF h \in {"service", "extensions"}
    THEN {[kind |-> "Refresh", terms |-> <<>>, previous |-> <<>>]}
    ELSE {[kind |-> "InitialSearch", terms |-> t, previous |-> <<>>] :
              t \in TermInputs}
         \cup {[kind |-> "SubsearchResult", terms |-> t, previous |-> p] :
                  t \in TermInputs, p \in PreviousInputs}

\* One call of a client, turned into one message of the application.
ClientRequest(a, h, r, limit) ==
    /\ Published(a)
    /\ sent < limit
    /\ Send(a, h, NewMessage(a, r.kind, r.terms, r.previous))
    /\ sent' = sent + 1
    /\ UNCHANGED <<startup_vars, env_vars, gate_vars, actor_vars>>

Request(a, h, r) == ClientRequest(a, h, r, MaxSends)

\* ------------------------------------------------------------------------
\* Specification
\* ------------------------------------------------------------------------

Next ==
    \/ ReadSettings
    \/ SkipProvider
    \/ \E lock_ok \in BOOLEAN : StartSearchService(lock_ok)
    \/ StartupRefreshDone
    \/ ConnectFails
    \/ Serve
    \/ \E list \in DisabledLists : ChangeSettings(list)
    \/ \E a \in Apps : PoisonLock(a)
    \/ HandleChanged
    \/ \E a \in Apps : ActorAnswer(a)
    \/ \E a \in Apps : ActorRefresh(a)
    \/ \E a \in Apps : PoolRun(a)
    \/ \E a \in Apps, outcome \in ReadOutcomes : RefreshDone(a, outcome)
    \/ \E a \in Apps, h \in Handles : \E r \in Requests(h) : Request(a, h, r)

Spec == Init /\ [][Next]_vars

\* The gates alone: hosts with several applications, no client request.
GateInstalledSets == {{"clion", "idea"}, {"clion", "idea", "pycharm"}}

InitGates == InitOn(GateInstalledSets, DisabledLists)

NextGates ==
    \/ ReadSettings
    \/ SkipProvider
    \/ \E lock_ok \in BOOLEAN : StartSearchService(lock_ok)
    \/ StartupRefreshDone
    \/ ConnectFails
    \/ Serve
    \/ \E list \in DisabledLists : ChangeSettings(list)
    \/ \E a \in Apps : PoisonLock(a)
    \/ HandleChanged
    \/ \E a \in Apps : ActorRefresh(a)
    \/ \E a \in Apps : PoolRun(a)
    \/ \E a \in Apps, outcome \in ReadOutcomes : RefreshDone(a, outcome)

SpecGates == InitGates /\ [][NextGates]_vars

\* The worker pools: every application installed, clients that call Refresh
\* on the settings extensions.
InitPool == InitOn({Apps}, {{}})

PoolRequest(a) ==
    ClientRequest(a, "extensions",
                  [kind |-> "Refresh", terms |-> <<>>, previous |-> <<>>],
                  MaxPoolSends)

NextPool ==
    \/ ReadSettings
    \/ StartSearchService(TRUE)
    \/ StartupRefreshDone
    \/ Serve
    \/ \E a \in Apps : PoolRequest(a)
    \/ \E a \in Apps : ActorRefresh(a)
    \/ \E a \in Apps : PoolRun(a)
    \/ \E a \in Apps, outcome \in ReadOutcomes : RefreshDone(a, outcome)

SpecPool == InitPool /\ [][NextPool]_vars

\* One mailbox under load: one application, clients on all three handles.
InitMailbox == InitOn({{"idea"}}, {{}})

MailboxRequests(h) ==
    IF h \in {"service", "extensions"}
    THEN [kind |-> "Refresh", terms |-> <<>>, previous |-> <<>>]
    ELSE [kind |-> "InitialSearch", terms |-> <<>>, previous |-> <<>>]

MailboxRequest(a, h) ==
    ClientRequest(a, h, MailboxRequests(h), MaxMailboxSends)

NextMailbox ==
    \/ ReadSettings
    \/ SkipProvider
    \/ StartSearchService(TRUE)
    \/ StartupRefreshDone
    \/ Serve
    \/ \E a \in Apps, h \in Handles : MailboxRequest(a, h)
    \/ \E a \in Apps : ActorAnswer(a)
    \/ \E a \in Apps : ActorRefresh(a)
    \/ \E a \in Apps : PoolRun(a)
    \/ \E a \in Apps, outcome \in ReadOutcomes : RefreshDone(a, outcome)

SpecMailbox == InitMailbox /\ [][NextMailbox]_vars

\* The registry: hosts with two installed applications of the catalog and
\* clients that call every method; launches succeed.
MaxAppsSends == 2

AppsInstalledSets == {{"clion", "pycharm"}, {"idea", "pycharm"}}

InitApps == InitOn(AppsInstalledSets, {{}})

AppsRequests(h) ==
    IF h \in {"service", "extensions"}
    THEN {[kind |-> "Refresh", terms |-> <<>>, previous |-> <<>>]}
    ELSE {[kind |-> "InitialSearch", terms |-> <<>>, previous |-> <<>>],
          [kind |-> "SubsearchResult", terms |-> << <<"L">> >>,
           previous |-> <<"p1">>],
          [kind |-> "ResultMetadata", terms |-> <<>>,
           previous |-> <<"p1", "p3">>],
          [kind |-> "Activate", terms |-> <<>>, previous |-> <<"p1">>]}

AppsRequest(a, h, r) == ClientRequest(a, h, r, MaxAppsSends)

NextApps ==
    \/ ReadSettings
    \/ SkipProvider
    \/ StartSearchService(TRUE)
    \/ StartupRefreshDone
    \/ Serve
    \/ \E a \in Apps, h \in Handles :
          \E r \in AppsRequests(h) : AppsRequest(a, h, r)
    \/ \E a \in Apps : ActorAnswer(a)
    \/ \E a \in Apps : ActorMetadata(a)
    \/ \E a \in Apps : ActorActivate(a, TRUE, TRUE, TRUE)
    \/ \E a \in Apps : ActorRefresh(a)
    \/ \E a \in Apps : PoolRun(a)
    \/ \E a \in Apps, outcome \in ReadOutcomes : RefreshDone(a, outcome)

SpecApps == InitApps /\ [][NextApps]_vars

\* What the code's scheduling guarantees: the glib main context polls a
\* spawned actor that has a message or a finished read to handle, a pool with
\* a free thread starts a queued job, and a read of the Project Index Reader
\* returns.
ActorsAreScheduled ==
    \A a \in Apps :
        /\ WF_vars(ActorAnswer(a))
        /\ WF_vars(ActorMetadata(a))
        /\ WF_vars(\E resolvable, spawn_ok, scope_ok \in BOOLEAN :
                       ActorActivate(a, resolvable, spawn_ok, scope_ok))
        /\ WF_vars(ActorRefresh(a))
        /\ WF_vars(PoolRun(a))
        /\ WF_vars(\E outcome \in ReadOutcomes : RefreshDone(a, outcome))

\* Startup with its failures, under fair scheduling: hosts with no, one, two
\* and three installed applications; once serving, clients call Refresh and
\* Activate, and reads and launches may fail.
MaxStartupSends == 1

StartupInstalledSets == {{}, {"idea"}, {"clion", "pycharm"}, Apps}

InitStartup == InitOn(StartupInstalledSets, {{}})

StartupRequests(h) ==
    IF h \in {"service", "extensions"}
    THEN [kind |-> "Refresh", terms |-> <<>>, previous |-> <<>>]
    ELSE [kind |-> "Activate", terms |-> <<>>, previous |-> <<"p1">>]

StartupRequest(a, h) ==
    ClientRequest(a, h, StartupRequests(h), MaxStartupSends)

\* The body of the provider loop runs for an installed application.
LoopBody == StartSearchService(TRUE) \/ ThreadPoolFails

\* The connection is built, or building it fails.
BuildConnection == Serve \/ ConnectFails \/ PublishFails \/ NameFails

NextStartup ==
    \/ ReadSettings
    \/ SkipProvider
    \/ LoopBody
    \/ StartupRefreshDone
    \/ BuildConnection
    \/ \E a \in Apps, h \in Handles : StartupRequest(a, h)
    \/ \E a \in Apps : \E resolvable, spawn_ok, scope_ok \in BOOLEAN :
          ActorActivate(a, resolvable, spawn_ok, scope_ok)
    \/ \E a \in Apps : ActorRefresh(a)
    \/ \E a \in Apps : PoolRun(a)
    \/ \E a \in Apps, outcome \in ReadOutcomes : RefreshDone(a, outcome)

\* block_on polls start_dbus_service until it returns: each of its steps
\* that can be taken is taken.
StartupIsScheduled ==
    /\ WF_vars(ReadSettings)
    /\ WF_vars(SkipProvider)
    /\ WF_vars(LoopBody)
    /\ WF_vars(StartupRefreshDone)
    /\ WF_vars(BuildConnection)

SpecStartup ==
    InitStartup /\ [][NextStartup]_vars /\ StartupIsScheduled
        /\ ActorsAreScheduled

\* Two applications under load: the clients' first requests may be Refresh
\* calls, the later ones are searches, to either application.
MaxLoadSends == 11

MaxLoadRefreshes == 1

InitLoad == InitOn({{"clion", "pycharm"}}, {{}})

LoadRequest(a, h) ==
    /\ h = "provider" \/ sent < MaxLoadRefreshes
    /\ ClientRequest(a, h, MailboxRequests(h), MaxLoadSends)

NextLoad ==
    \/ ReadSettings
    \/ SkipProvider
    \/ StartSearchService(TRUE)
    \/ StartupRefreshDone
    \/ Serve
    \/ \E a \in Apps, h \in Handles : LoadRequest(a, h)
    \/ \E a \in Apps : ActorAnswer(a)
    \/ \E a \in Apps : ActorRefresh(a)
    \/ \E a \in Apps : PoolRun(a)
    \/ \E a \in Apps, outcome \in ReadOutcomes : RefreshDone(a, outcome)

SpecLoad == InitLoad /\ [][NextLoad]_vars

\* The gates of two applications with the listener and searching clients.
MaxGateSends == 2

InitListener == InitOn({{"clion", "idea"}}, DisabledLists)

GateRequest(a) ==
    ClientRequest(a, "provider",
                  [kind |-> "InitialSearch", terms |-> <<>>,
                   previous |-> <<>>],
                  MaxGateSends)

NextListener ==
    \/ ReadSettings
    \/ SkipProvider
    \/ StartSearchService(TRUE)
    \/ StartupRefreshDone
    \/ Serve
    \/ \E list \in DisabledLists : ChangeSettings(list)
    \/ HandleChanged
    \/ \E a \in Apps : GateRequest(a)
    \/ \E a \in Apps : ActorAnswer(a)
    \/ \E a \in Apps : ActorRefresh(a)
    \/ \E a \in Apps : PoolRun(a)
    \/ \E a \in Apps, outcome \in ReadOutcomes : RefreshDone(a, outcome)

SpecListener == InitListener /\ [][NextListener]_vars

\* The launches: two applications, clients that activate results, and
\* launches that fail at each of their steps.
MaxLaunchSends == 3

InitLaunch == InitOn({{"clion", "pycharm"}}, {{}})

LaunchRequest(a) ==
    ClientRequest(a, "provider",
                  [kind |-> "Activate", terms |-> <<>>,
                   previous |-> <<"p1">>],
                  MaxLaunchSends)

NextLaunch ==
    \/ ReadSettings
    \/ SkipProvider
    \/ StartSearchService(TRUE)
    \/ StartupRefreshDone
    \/ Serve
    \/ \E a \in Apps : LaunchRequest(a)
    \/ \E a \in Apps : \E resolvable, spawn_ok, scope_ok \in BOOLEAN :
          ActorActivate(a, resolvable, spawn_ok, scope_ok)
    \/ \E a \in Apps : ActorRefresh(a)
    \/ \E a \in Apps : PoolRun(a)
    \/ \E a \in Apps, outcome \in ReadOutcomes : RefreshDone(a, outcome)

SpecLaunch == InitLaunch /\ [][NextLaunch]_vars

\* The searches: one application, reads that return up to three records,
\* clients that search with several terms and previous results.
MaxSearchSends == 2

InitSearch == InitOn({{"idea"}}, {{}, {"idea"}})

SearchRequests(h) ==
    IF h \in {"service", "extensions"}
    THEN {[kind |-> "Refresh", terms |-> <<>>, previous |-> <<>>]}
    ELSE {[kind |-> "InitialSearch", terms |-> t, previous |-> <<>>] :
              t \in SearchTermInputs}
         \cup {[kind |-> "SubsearchResult", terms |-> t, previous |-> p] :
                  t \in SearchTermInputs, p \in SearchPreviousInputs}

SearchRequest(a, h, r) == ClientRequest(a, h, r, MaxSearchSends)

NextSearch ==
    \/ ReadSettings
    \/ SkipProvider
    \/ StartSearchService(TRUE)
    \/ StartupRefreshDone
    \/ Serve
    \/ \E a \in Apps, h \in Handles :
          \E r \in SearchRequests(h) : SearchRequest(a, h, r)
    \/ \E a \in Apps : ActorAnswer(a)
    \/ \E a \in Apps : ActorRefresh(a)
    \/ \E a \in Apps : PoolRun(a)
    \/ \E a \in Apps, outcome \in SearchReadOutcomes : RefreshDone(a, outcome)

SpecSearch == InitSearch /\ [][NextSearch]_vars

\* The mailbox under fair scheduling: one application; the clients' first
\* requests may be Refresh calls, the later ones are searches.
MaxLiveSends == 10

MaxLiveRefreshes == 2

LiveRequest(a, h) ==
    /\ h = "provider" \/ sent < MaxLiveRefreshes
    /\ ClientRequest(a, h, MailboxRequests(h), MaxLiveSends)

NextLive ==
    \/ ReadSettings
    \/ SkipProvider
    \/ StartSearchService(TRUE)
    \/ StartupRefreshDone
    \/ Serve
    \/ \E a \in Apps, h \in Handles : LiveRequest(a, h)
    \/ \E a \in Apps : ActorAnswer(a)
    \/ \E a \in Apps : ActorRefresh(a)
    \/ \E a \in Apps : PoolRun(a)
    \/ \E a \in Apps, outcome \in ReadOutcomes : RefreshDone(a, outcome)

SpecLive == InitMailbox /\ [][NextLive]_vars /\ ActorsAreScheduled

\* ------------------------------------------------------------------------
\* Claims
\* ------------------------------------------------------------------------

Registered == Range(app_disabled_state)

\* The step in which the idle actor of `a` answers a query.
QueryAnswered(a) == actor[a] = "idle" /\ processed'[a] = processed[a] + 1

\* The step in which the actor of `a` ends a Refresh.
RefreshEnded(a) == actor[a] = "refreshing" /\ processed'[a] = processed[a] + 1

\* The step in which the changed handler runs.
ChangedHandled == pending_changed /\ ~pending_changed'

\* C1: when the gate of an application holds "disabled" and its lock can be
\* taken, the reply to an InitialSearch or SubsearchResult is the empty
\* sequence and no index changes, whatever the terms and the index.
C1_DisabledGivesEmptyReply ==
    [][\A a \in Apps :
          (QueryAnswered(a) /\ ~poisoned[a] /\ disabled[a])
              => /\ last_reply'[a].result = <<>>
                 /\ last_reply'[a].kind \in {"InitialSearch", "SubsearchResult"}
                 /\ index' = index]_vars

\* A disabled application with projects in its index was asked for
\* everything and replied with nothing.
C1_Witness ==
    \E a \in Apps :
        /\ last_reply[a].kind = "InitialSearch"
        /\ last_reply[a].terms = <<>>
        /\ last_reply[a].gate = "disabled"
        /\ last_reply[a].result = <<>>
        /\ disabled[a] /\ ~poisoned[a]
        /\ index[a] # <<>>

\* C2 as stated: at most 8 messages are ever pending in a mailbox.
C2_AtMostBufferPending ==
    \A a \in Apps : Len(mailbox[a]) <= ChannelBuffer

\* Every message sent for `a`: the startup Refresh and the clients' requests
\* (SpecMailbox has one application).
Enqueued(a) == IF actor[a] = "none" THEN 0 ELSE 1 + sent

\* C2 amended: at most 8 + (number of sender handles) messages are pending;
\* exactly the senders whose message took the count above 8 are suspended,
\* one is woken per message the actor takes, and every message sent is
\* pending, in processing or replied to (none dropped, none rejected).
C2_BufferPlusSendersPending ==
    \A a \in Apps :
        /\ Len(mailbox[a]) <= ChannelBuffer + Cardinality(Handles)
        /\ Len(parked_queue[a]) =
               (IF Len(mailbox[a]) > ChannelBuffer
                THEN Len(mailbox[a]) - ChannelBuffer ELSE 0)
        /\ Cardinality(Range(parked_queue[a])) = Len(parked_queue[a])
        /\ Enqueued(a) = processed[a] + Len(mailbox[a])
                           + (IF current[a].kind = "none" THEN 0 ELSE 1)

\* All three handles are suspended with 11 messages pending.
C2_Witness ==
    \E a \in Apps :
        /\ Len(mailbox[a]) = ChannelBuffer + Cardinality(Handles)
        /\ Range(parked_queue[a]) = Handles

\* C3 as stated: over all applications, at most 2 reads of the Project Index
\* Reader run at the same time.
C3_AtMostTwoReads ==
    Cardinality({a \in Apps : job[a] = "running"}) <= PoolMaxThreads

\* The result the matching rule gives for message m on the index idx.
Expected(idx, m) ==
    IF m.kind = "InitialSearch" THEN FindMatching(idx, m.terms)
    ELSE FindWithin(idx, m.previous, m.terms)

IsQuery(m) == m.kind \in {"InitialSearch", "SubsearchResult"}

\* C4: a Refresh whose read fails leaves the index as it was and the actor
\* idle for its next message; an InitialSearch answered next returns the
\* matches of that pre-failure index; and once serving, every installed
\* application is registered, whatever its startup refresh returned.
C4_FailedRefreshKeepsIndex ==
    /\ [][\A a \in Apps :
            /\ (RefreshEnded(a) /\ ~last_reply'[a].ok)
                  => /\ index'[a] = index[a]
                     /\ actor'[a] = "idle"
                     /\ mailbox'[a] = mailbox[a]
            /\ (/\ QueryAnswered(a)
                /\ last_reply[a].kind = "Refresh" /\ ~last_reply[a].ok
                /\ ~(disabled[a] /\ ~poisoned[a])
                /\ Head(mailbox[a]).kind = "InitialSearch")
                  => /\ last_reply[a].idx = index[a]
                     /\ last_reply'[a].result =
                            FindMatching(index[a], Head(mailbox[a]).terms)]_vars
    /\ [](pc = "serving" => Range(providers) = installed)

\* After a failed Refresh of a client (the third message: startup Refresh,
\* failed Refresh, query) an InitialSearch returned projects.
C4_Witness ==
    \E a \in Apps :
        /\ last_reply[a].kind = "InitialSearch"
        /\ last_reply[a].seq = 3
        /\ last_reply[a].prior.kind = "Refresh"
        /\ ~last_reply[a].prior.ok
        /\ last_reply[a].result # <<>>

\* C5: when the changed handler runs with an application in the disabled list
\* (and its lock acquirable), the gate is disabled afterwards and no index and
\* no mailbox has changed; an InitialSearch answered while the gate holds
\* disabled returns the empty sequence from the unchanged index.
C5_DisablingBetweenSearches ==
    [][\A a \in Apps :
          /\ (ChangedHandled /\ a \in Registered /\ a \in settings
                /\ ~poisoned[a])
                => /\ disabled'[a]
                   /\ index' = index
                   /\ mailbox' = mailbox
          /\ (QueryAnswered(a) /\ disabled[a] /\ ~poisoned[a]
                /\ Head(mailbox[a]).kind = "InitialSearch")
                => /\ last_reply'[a].result = <<>>
                   /\ last_reply'[a].idx = index[a]
                   /\ index'[a] = index[a]]_vars

\* Two InitialSearch replies in a row from the same non-empty index: the
\* first with projects, the second empty, of an application that the startup
\* snapshot did not disable.
C5_Witness ==
    \E a \in Apps :
        /\ last_reply[a].kind = "InitialSearch"
        /\ last_reply[a].gate = "disabled"
        /\ last_reply[a].result = <<>>
        /\ last_reply[a].prior.kind = "InitialSearch"
        /\ last_reply[a].prior.result # <<>>
        /\ last_reply[a].prior.idx = last_reply[a].idx
        /\ a \notin disabled_apps

\* C6: the changed handler sets the gate of every registered application
\* whose lock it acquires to (application in the list) and leaves every other
\* gate as it was; running it twice on the same list gives what running it
\* once gives.
C6_ListenerUpdatesGates ==
    /\ [][ChangedHandled =>
            \A a \in Apps :
                disabled'[a] = IF a \in Registered /\ ~poisoned[a]
                               THEN a \in settings ELSE disabled[a]]_vars
    /\ [](\A list \in DisabledLists :
             GatesAfterChanged(GatesAfterChanged(disabled, list), list)
                 = GatesAfterChanged(disabled, list))

\* The handler has run: a gate with a poisoned lock kept a value that is not
\* the membership in the list, another gate got a value the startup snapshot
\* did not give it.
C6_Witness ==
    /\ pc = "serving"
    /\ ~pending_changed
    /\ \E a, b \in Registered :
        /\ poisoned[a]
        /\ disabled[a] # (a \in settings)
        /\ ~poisoned[b]
        /\ disabled[b] = (b \in settings)
        /\ disabled[b] # (b \in disabled_apps)

\* C7 as stated, for the states in which every change signal has been
\* handled and every gate lock can be acquired: every gate equals the
\* membership of its application in the newest disabled list.
C7_GatesFollowSettings ==
    (pc = "serving" /\ ~pending_changed /\ \A a \in Apps : ~poisoned[a])
        => \A a \in Registered : disabled[a] = (a \in settings)

\* C8: a query that finds the gate's lock unacquirable is answered from the
\* index as if the application were enabled; a lock that cannot be acquired
\* at startup leaves the gate enabled and the application registered; a
\* query at the head of an idle actor's mailbox can always be answered.
C8_GateReadFailsOpen ==
    /\ [][\A a \in Apps :
            /\ (QueryAnswered(a) /\ poisoned[a])
                  => last_reply'[a].result = Expected(index[a], Head(mailbox[a]))
            /\ (actor[a] = "none" /\ actor'[a] # "none" /\ poisoned'[a])
                  => /\ ~disabled'[a]
                     /\ a \in Range(app_disabled_state')]_vars
    /\ [](\A a \in Apps :
             (actor[a] = "idle" /\ mailbox[a] # <<>> /\ IsQuery(Head(mailbox[a])))
                 => ENABLED ActorAnswer(a))
    /\ [](pc = "serving" => installed \subseteq Range(providers))

\* An application whose lock cannot be acquired, listed as disabled in the
\* startup snapshot and in the settings, is registered and has answered a
\* query with projects.
C8_Witness ==
    \E a \in Apps :
        /\ poisoned[a]
        /\ a \in disabled_apps /\ a \in settings
        /\ ~disabled[a]
        /\ a \in Range(providers)
        /\ last_reply[a].gate = "failopen"
        /\ last_reply[a].result # <<>>

\* C9: the messages of a mailbox are taken in the order of their enqueueing,
\* one at a time: the pending messages, the message in processing and the
\* last reply carry consecutive sequence numbers, and a message leaves the
\* mailbox only when the actor is idle with no read queued or running.
C9_MailboxIsFifo ==
    /\ [](\A a \in Apps :
             /\ processed[a] > 0 => last_reply[a].seq = processed[a]
             /\ current[a].kind # "none" => current[a].seq = processed[a] + 1
             /\ \A k \in 1..Len(mailbox[a]) :
                    mailbox[a][k].seq =
                        processed[a] + k
                          + (IF current[a].kind = "none" THEN 0 ELSE 1))
    /\ [][\A a \in Apps :
            Len(mailbox'[a]) < Len(mailbox[a])
                => /\ actor[a] = "idle" /\ job[a] = "none"
                   /\ current[a].kind = "none"
                   /\ mailbox'[a] = Tail(mailbox[a])
                   /\ \/ current'[a] = Head(mailbox[a])
                      \/ last_reply'[a].seq = Head(mailbox[a]).seq]_vars

\* While a Refresh waits for the pool, a query and a Refresh are pending
\* behind it, and all three handles are suspended.
C9_Witness ==
    \E a \in Apps :
        /\ actor[a] = "refreshing"
        /\ job[a] = "queued"
        /\ Len(mailbox[a]) > ChannelBuffer
        /\ \E j, k \in 1..Len(mailbox[a]) :
              j < k /\ mailbox[a][j].kind = "InitialSearch"
                    /\ mailbox[a][k].kind = "Refresh"

\* C10: the last reply to a query was given from the index that the last
\* Refresh enqueued before that query left: that Refresh is the last one
\* completed, and the result is what the matching rule gives on its index;
\* a Refresh whose read succeeded leaves the records read, in index order.
C10_QuerySeesRefreshedIndex ==
    /\ [](\A a \in Apps :
             IsQuery(last_reply[a])
                 => /\ last_reply[a].after >= 1
                    /\ refreshed[a].seq = last_reply[a].after
                    /\ last_reply[a].idx = refreshed[a].idx
                    /\ last_reply[a].result =
                           IF last_reply[a].gate = "disabled" THEN <<>>
                           ELSE Expected(refreshed[a].idx, last_reply[a]))
    /\ [][\A a \in Apps :
            (RefreshEnded(a) /\ last_reply'[a].ok)
                => /\ index'[a] \in {SortIndex(r) : r \in ReadResults}
                   /\ refreshed'[a] = [seq |-> current[a].seq,
                                       idx |-> index'[a]]]_vars

\* A query enqueued behind a client's Refresh (the second Refresh of the
\* mailbox, after the startup Refresh) was answered with both projects.
C10_Witness ==
    \E a \in Apps :
        /\ last_reply[a].kind = "InitialSearch"
        /\ last_reply[a].after = 2
        /\ last_reply[a].seq = 3
        /\ last_reply[a].gate = "enabled"
        /\ last_reply[a].result = <<"p2", "p1">>

\* C11: every message pending in a mailbox is eventually taken and replied
\* to by the actor of that mailbox (the reply with its sequence number is
\* the one given to its caller), and every suspended sender is eventually
\* ready again.
C11_EveryMessageIsProcessed ==
    \A a \in Apps :
        /\ \A n \in 1..(MaxLiveSends + 1) :
               (\E k \in 1..Len(mailbox[a]) : mailbox[a][k].seq = n)
                   ~> (last_reply[a].seq = n)
        /\ \A h \in Handles :
               (h \in Range(parked_queue[a])) ~> SenderReady(a, h)

\* A sender is still suspended by the full mailbox while the actor has
\* already replied to a client's message.
C11_Witness ==
    \E a \in Apps :
        /\ parked_queue[a] # <<>>
        /\ Len(mailbox[a]) > ChannelBuffer
        /\ processed[a] >= 2
        /\ last_reply[a].seq = processed[a]

\* C12: a reply to SubsearchResult with at least one term holds only ids of
\* the request's previous results, none more often than there, whatever the
\* index holds.
C12_SubsearchNarrows ==
    \A a \in Apps :
        (last_reply[a].kind = "SubsearchResult" /\ last_reply[a].terms # <<>>)
            => LET res == last_reply[a].result
                   prev == last_reply[a].previous
                   Count(list, id) ==
                       Cardinality({k \in 1..Len(list) : list[k] = id})
               IN /\ Range(res) \subseteq Range(prev)
                  /\ \A id \in Range(res) : Count(res, id) <= Count(prev, id)

\* A subsearch of an enabled application returned some but not all of its
\* previous results while the index held a matching project that was not
\* among them.
C12_Witness ==
    \E a \in Apps :
        /\ last_reply[a].kind = "SubsearchResult"
        /\ last_reply[a].terms # <<>>
        /\ last_reply[a].gate = "enabled"
        /\ last_reply[a].result # <<>>
        /\ last_reply[a].result # last_reply[a].previous
        /\ \E k \in 1..Len(index[a]) :
              /\ Matches(index[a][k], last_reply[a].terms)
              /\ index[a][k].id \notin Range(last_reply[a].previous)

\* p comes before q in the order of a result: last used later, or as
\* recently with the smaller id.
Precedes(p, q) ==
    \/ p.last_used > q.last_used
    \/ p.last_used = q.last_used /\ IdRank(p.id) < IdRank(q.id)

\* res lists projects of idx, each once, in result order, and no project of
\* idx that is left out comes before a listed one.
LeadingIds(idx, res) ==
    LET Rec(id) == CHOOSE p \in Range(idx) : p.id = id
    IN /\ Range(res) \subseteq {p.id : p \in Range(idx)}
       /\ \A j, k \in 1..Len(res) :
              j < k => res[j] # res[k] /\ Precedes(Rec(res[j]), Rec(res[k]))
       /\ \A p \in Range(idx) :
              p.id \notin Range(res)
                  => \A k \in 1..Len(res) : Precedes(Rec(res[k]), p)

\* The last reply of `a` answers InitialSearch([]) for an enabled gate.
EmptySearchAnswered(a) ==
    /\ last_reply[a].kind = "InitialSearch"
    /\ last_reply[a].terms = <<>>
    /\ last_reply[a].gate = "enabled"

WithActor == {a \in Apps : actor[a] # "none"}

\* C14: once startup has completed, the applications with an actor, with a
\* sender in the service interface (a mailbox), with a gate the listener
\* holds and with published objects are each exactly the catalog providers
\* found installed, every one listed once; and from then on no step changes
\* any of these.
C14_RegistryIsInstalledSet ==
    /\ [](pc = "serving"
            => /\ WithActor = installed
               /\ Range(search_services) = installed
               /\ Range(app_disabled_state) = installed
               /\ Range(providers) = installed
               /\ Len(search_services) = Cardinality(installed)
               /\ Len(app_disabled_state) = Cardinality(installed)
               /\ Len(providers) = Cardinality(installed)
               /\ installed \subseteq Apps)
    /\ [][pc = "serving"
            => /\ pc' = "serving"
               /\ search_services' = search_services
               /\ app_disabled_state' = app_disabled_state
               /\ providers' = providers
               /\ {a \in Apps : actor'[a] # "none"} = WithActor]_vars

\* Serving on a host without one catalog application: requests of clients
\* were answered by both installed applications, and the third has no actor
\* and is not listed.
C14_Witness ==
    /\ pc = "serving"
    /\ installed = {"clion", "pycharm"}
    /\ "idea" \notin WithActor \cup Range(search_services)
    /\ \A a \in installed : processed[a] >= 2

\* Startup has aborted without any part of the Ok arm of main: the launch
\* service is not started, no client request was accepted, and an actor has
\* answered nothing but its startup Refresh.
AbortedCleanly ==
    /\ launch_service = "created"
    /\ sent = 0
    /\ \A a \in Apps :
          /\ processed[a] <= 1
          /\ mailbox[a] = <<>>
          /\ processed[a] = 1 => last_reply[a].kind = "Refresh"

\* Startup has fully succeeded.
FullyStarted ==
    /\ exit_cause = "none"
    /\ launch_service = "started"
    /\ Range(providers) = installed

\* C15 as stated: a startup that fails to connect to the bus, to register
\* the name or to publish an object path exits without starting the launch
\* service, the main loop or answering a request; these three are the only
\* failures that abort startup; a serving process is fully started and no
\* step of a request ends it.
C15_OnlyThreeFailuresAbort ==
    /\ [](pc = "failed"
            => AbortedCleanly /\ exit_cause \in {"bus", "name", "publish"})
    /\ [](pc = "serving" => FullyStarted)
    /\ [][pc = "serving" => pc' = "serving"]_vars

\* C15 amended: the failure to create the thread pool of an installed
\* application aborts startup as well; these four are the only failures
\* that abort startup.
C15_FourFailuresAbort ==
    /\ [](pc = "failed"
            => /\ AbortedCleanly
               /\ exit_cause \in {"bus", "name", "publish", "pool"})
    /\ [](pc = "serving" => FullyStarted)
    /\ [][pc = "serving" => pc' = "serving"]_vars

\* Startup was aborted by a thread pool that could not be created, after
\* the actor of an earlier application had answered its startup Refresh.
C15_Witness ==
    /\ pc = "failed"
    /\ exit_cause = "pool"
    /\ launch_service = "created"
    /\ \E a \in Apps : processed[a] = 1 /\ last_reply[a].kind = "Refresh"

\* C20: every awaited startup refresh completes (the loop goes on to the
\* next provider), start_dbus_service returns, and a startup that is not
\* aborted reaches the serving state with the launch service started.
C20_StartupTerminates ==
    /\ \A k \in 1..Len(PROVIDERS) :
          (pc = "await" /\ next_provider = k)
              ~> (processed[PROVIDERS[k]] >= 1 /\ next_provider > k)
    /\ <>(pc \in {"serving", "failed"})
    /\ <>(exit_cause # "none" \/ (pc = "serving" /\ FullyStarted))

\* Serving after the startup refreshes of three applications were awaited
\* one after the other.
C20_Witness ==
    /\ pc = "serving"
    /\ launch_service = "started"
    /\ installed = Apps
    /\ \A a \in Apps : processed[a] >= 1

\* The step in which the launch service has handled a launch of `a`.
LaunchDone(a) == last_launch'[a] # last_launch[a]

\* C16: the caller of a launch is told "ok" exactly when the process was
\* spawned; a spawned process whose scope registration failed is left
\* running, reported "ok", with a warning; an executable that cannot be
\* resolved gives no process and a reported failure; and in every case the
\* service keeps serving, the actor is idle again and no index or gate has
\* changed.
C16_LaunchReportsSpawnOnly ==
    [][\A a \in Apps :
          LaunchDone(a)
              => /\ (last_launch'[a].reported = "ok") = last_launch'[a].spawned
                 /\ (last_launch'[a].reported = "failed")
                        = ~last_launch'[a].spawned
                 /\ last_reply'[a].seq = last_launch'[a].seq
                 /\ last_reply'[a].ok = last_launch'[a].spawned
                 /\ ~last_launch'[a].registered
                        => last_launch'[a].warned = last_launch'[a].spawned
                 /\ ~last_launch'[a].resolved => ~last_launch'[a].spawned
                 /\ pc' = "serving" /\ launch_service' = "started"
                 /\ actor'[a] = "idle"
                 /\ index' = index /\ disabled' = disabled]_vars

\* One application was launched although its scope could not be registered
\* (reported "ok", with a warning); the launch of another failed because
\* its executable was not resolved; the service is serving.
C16_Witness ==
    /\ pc = "serving"
    /\ \E a, b \in Apps :
          /\ last_launch[a].spawned /\ ~last_launch[a].registered
          /\ last_launch[a].reported = "ok" /\ last_launch[a].warned
          /\ ~last_launch[b].resolved /\ last_launch[b].reported = "failed"

\* The actor or the pool of `a` takes a step.
ActorStep(a) ==
    \/ processed'[a] # processed[a]
    \/ current'[a] # current[a]
    \/ job'[a] # job[a]

\* C17: whatever the state of the other applications, a request to a
\* published application whose sender is not suspended on that application's
\* own mailbox can be enqueued, an idle actor can take the message at the
\* head of its mailbox, a queued read can start and a running read can end;
\* and a step of one application's actor or pool leaves the index, the gate,
\* the mailbox, the suspended senders and the actor of every other
\* application as they were.
C17_ApplicationsAreIndependent ==
    /\ [](\A b \in Apps :
             /\ \A h \in Handles :
                    (/\ Published(b)
                     /\ h \notin Range(parked_queue[b])
                     /\ sent < MaxLoadSends
                     /\ h = "provider" \/ sent < MaxLoadRefreshes)
                        => ENABLED LoadRequest(b, h)
             /\ (actor[b] = "idle" /\ mailbox[b] # <<>>)
                    => ENABLED (ActorAnswer(b) \/ ActorRefresh(b))
             /\ job[b] = "queued" => ENABLED PoolRun(b)
             /\ job[b] = "running"
                    => ENABLED (\E outcome \in ReadOutcomes :
                                   RefreshDone(b, outcome)))
    /\ [][\A a \in Apps :
            ActorStep(a)
                => \A b \in Apps \ {a} :
                       /\ index'[b] = index[b]
                       /\ disabled'[b] = disabled[b]
                       /\ mailbox'[b] = mailbox[b]
                       /\ parked_queue'[b] = parked_queue[b]
                       /\ actor'[b] = actor[b]
                       /\ last_reply'[b] = last_reply[b]]_vars

\* While one application's Refresh waits for the pool with its mailbox full
\* and its search provider's sender suspended, the other application has
\* answered a search.
C17_Witness ==
    \E a, b \in Apps :
        /\ a # b
        /\ actor[a] = "refreshing"
        /\ current[a].seq = 2
        /\ Len(mailbox[a]) > ChannelBuffer
        /\ "provider" \in Range(parked_queue[a])
        /\ last_reply[b].kind = "InitialSearch"
        /\ last_reply[b].result # <<>>

\* The message kinds a client's search provider calls become.
ClientKinds == {"InitialSearch", "SubsearchResult", "ResultMetadata",
                "Activate"}

\* C18: an application is pushed for publication, and published, only when
\* its startup Refresh has been enqueued and replied to; the first message
\* an actor replies to is that Refresh; and every message of a client kind
\* that is pending or replied to was enqueued behind it.
C18_RefreshBeforePublication ==
    /\ [](\A a \in Apps :
             /\ (Published(a) \/ a \in Range(providers)) => processed[a] >= 1
             /\ last_reply[a].kind \in ClientKinds
                    => last_reply[a].seq >= 2 /\ last_reply[a].after >= 1
             /\ \A k \in 1..Len(mailbox[a]) :
                    mailbox[a][k].kind \in ClientKinds
                        => mailbox[a][k].seq >= 2 /\ mailbox[a][k].after >= 1)
    /\ [][\A a \in Apps :
            (processed[a] = 0 /\ processed'[a] = 1)
                => /\ last_reply'[a].kind = "Refresh"
                   /\ last_reply'[a].seq = 1
                   /\ ~Published(a) /\ sent = 0]_vars

\* A published application has replied to the startup Refresh and then to
\* a client's ResultMetadata, and an Activate is pending behind that.
C18_Witness ==
    \E a \in Apps :
        /\ Published(a)
        /\ refreshed[a].seq = 1
        /\ last_reply[a].kind = "ResultMetadata"
        /\ last_reply[a].seq = 2
        /\ mailbox[a] # <<>>
        /\ Head(mailbox[a]).kind = "Activate"

\* C19: once serving, the listener's entries are the registered
\* applications, each once; the handler leaves in the gate of every
\* registered application the membership of that application in the list,
\* and every other gate as it was; and a search reads the gate of its own
\* application as the last write left it.
C19_ListenerWritesTheGateRead ==
    /\ [](pc = "serving"
            => /\ Range(app_disabled_state) = Range(providers)
               /\ Len(app_disabled_state)
                      = Cardinality(Range(app_disabled_state)))
    /\ [][ChangedHandled
            => \A a \in Apps :
                   disabled'[a] = IF a \in Range(providers)
                                  THEN a \in settings ELSE disabled[a]]_vars
    /\ [][\A a \in Apps :
            QueryAnswered(a)
                => (last_reply'[a].gate = "disabled") = disabled[a]]_vars

\* The startup snapshot disabled nothing; after a change of the settings
\* the one application answers a search with nothing and the other with its
\* projects.
C19_Witness ==
    \E a, b \in Apps :
        /\ disabled_apps = {}
        /\ last_reply[a].kind = "InitialSearch"
        /\ last_reply[a].gate = "disabled"
        /\ last_reply[a].idx # <<>>
        /\ last_reply[b].kind = "InitialSearch"
        /\ last_reply[b].gate = "enabled"
        /\ last_reply[b].result # <<>>

====
